---- MODULE Spec2Model ----
(***************************************************************************)
(* Sensorium world model (src/sensoriumworld_model.py).                    *)
(*                                                                         *)
(* Three parts of the module are translated from the Python source:        *)
(*   - Entity (de)serialisation        (SpecSerde)                         *)
(*   - WorldModel.__init__ and helpers (SpecInit)                          *)
(*   - WorldModel.update_entity        (Spec)                              *)
(* The fourth part (SpecDesign) models the VersionedStore / RemoteSync     *)
(* design that spec.md describes and that has no code in src/.             *)
(***************************************************************************)
EXTENDS Integers, Sequences, FiniteSets, TLC

VARIABLES
    \* ---- Entity serialisation ----
    doc,          \* the Firestore dictionary handed to from_firestore_dict
    now,          \* what datetime.utcnow() returns during the call
    ent,          \* the Entity the call returned
    err,          \* the exception it raised ("none" when it returned)
    out,          \* to_firestore_dict(ent)
    sphase,       \* "input" -> "deserialized" -> "serialized"
    \* ---- WorldModel construction ----
    apps,         \* firebase_admin._apps: the process-wide default app
    ambient,      \* ambient default credentials are available
    backend_up,   \* Firestore answers the connection test
    cred_path,    \* firebase_credentials_path given to __init__
    pc,           \* position inside __init__
    init_error,   \* exception __init__ ended with
    health_doc,   \* world_model_health/connection_test has been written
    \* ---- WorldModel.update_entity ----
    entities,     \* self.entities: dict id -> Entity
    writes,       \* history: number of successful writes per id
    call,         \* per caller: the update_entity call in progress
    \* ---- VersionedStore / RemoteSync design (spec.md sections 3-7) ----
    local,        \* VersionedStore: id -> [version, val, deleting]
    queue,        \* RemoteSync: the queued, unacknowledged writes
    sync,         \* RemoteSync: DISCONNECTED, CONNECTING, SYNCED, DEGRADED
    backend,      \* the remote store: id -> [version, val, tomb]
    resp,         \* per id: the backend's answer still on its way
    notes,        \* remote-origin change notifications, each with its fate
    seq,          \* number of writes the store has accepted
    rcount,       \* number of remote-origin writes
    applied       \* the queued writes the backend has applied already

serdeVars == <<doc, now, ent, err, out, sphase>>
initVars  == <<apps, ambient, backend_up, cred_path, pc, init_error, health_doc>>
storeVars == <<entities, writes, call>>
designVars == <<local, queue, sync, backend, resp, notes, seq, rcount, applied>>
vars == <<serdeVars, initVars, storeVars, designVars>>

-----------------------------------------------------------------------------
(* Bounds *)
MaxVersion == 2
MaxSeq == 3
MaxRemote == 1

-----------------------------------------------------------------------------
(* class WorldState(Enum): member name |-> value *)
WorldState ==
    [STABLE |-> "stable", VOLATILE |-> "volatile",
     DEGRADING |-> "degrading", UNKNOWN |-> "unknown"]

\* WorldState(value): lookup of a member by value; ValueError when no member
\* has that value.
WorldStateOf(value) ==
    IF \E m \in DOMAIN WorldState : WorldState[m] = value
    THEN CHOOSE m \in DOMAIN WorldState : WorldState[m] = value
    ELSE "ValueError"

\* Field defaults of the Entity dataclass / of from_firestore_dict's data.get.
DefaultProperties == "{}"
DefaultConfidence == 100
DefaultRelationships == <<>>

Keys == {"id", "entity_type", "properties", "confidence", "last_updated",
         "state", "relationships"}

\* dict.get(key, default) for one key.
Get(data, key, default) == IF key \in DOMAIN data THEN data[key] ELSE default

\* Entity.to_firestore_dict
to_firestore_dict(e) ==
    [id |-> e.id,
     entity_type |-> e.entity_type,
     properties |-> e.properties,
     confidence |-> e.confidence,
     last_updated |-> e.last_updated,
     state |-> WorldState[e.state],
     relationships |-> e.relationships]

\* Entity.from_firestore_dict: [raised, value]; raised = "ValueError" when
\* WorldState(...) rejects the state string.
from_firestore_dict(data, utcnow) ==
    LET st == WorldStateOf(Get(data, "state", "unknown"))
    IN  IF st = "ValueError"
        THEN [raised |-> "ValueError"]
        ELSE [raised |-> "none",
              value |->
                [id |-> Get(data, "id", ""),
                 entity_type |-> Get(data, "entity_type", ""),
                 properties |-> Get(data, "properties", DefaultProperties),
                 confidence |-> Get(data, "confidence", DefaultConfidence),
                 last_updated |-> Get(data, "last_updated", utcnow),
                 state |-> st,
                 relationships |-> Get(data, "relationships", DefaultRelationships)]]

-----------------------------------------------------------------------------
(* Inputs of the serialisation check *)
StateStrings == {"stable", "volatile", "degrading", "unknown", "bogus", "STABLE"}
Times == {1, 2}

FullDocs ==
    [id : {"", "e1"},
     entity_type : {"", "sensor"},
     properties : {"{}", "{k:1}"},
     confidence : {100, 50},
     last_updated : {0},
     state : StateStrings,
     relationships : {<<>>, <<"e2">>}]

NoEntity ==
    [id |-> "", entity_type |-> "", properties |-> DefaultProperties,
     confidence |-> DefaultConfidence, last_updated |-> 0, state |-> "UNKNOWN",
     relationships |-> DefaultRelationships]

SerdeIdle ==
    /\ doc = [k \in {} |-> 0]
    /\ now = 1
    /\ ent = NoEntity
    /\ err = "none"
    /\ out = [k \in {} |-> 0]
    /\ sphase = "off"

InitIdle ==
    /\ apps = "none"
    /\ ambient = FALSE
    /\ backend_up = TRUE
    /\ cred_path = "None"
    /\ pc = "off"
    /\ init_error = "none"
    /\ health_doc = FALSE

IdleCall == [pc |-> "idle", entity |-> NoEntity, expected |-> 0, result |-> "none"]

Callers == {"c1", "c2"}

StoreIdle ==
    /\ entities = [k \in {} |-> NoEntity]
    /\ writes = [i \in {"", "e1", "e2"} |-> 0]
    /\ call = [c \in Callers |-> IdleCall]

Absent == [version |-> 0, val |-> 0, status |-> "removed"]
NoDoc == [version |-> 0, val |-> 0, tomb |-> FALSE]

DesignIdle ==
    /\ local = [i \in {} |-> Absent]
    /\ queue = <<>>
    /\ sync = "off"
    /\ backend = [i \in {} |-> NoDoc]
    /\ resp = [i \in {} |-> "none"]
    /\ notes = {}
    /\ seq = 0
    /\ rcount = 0
    /\ applied = {}

SerdeInit ==
    /\ \E present \in SUBSET Keys, full \in FullDocs :
          doc = [k \in present |-> full[k]]
    /\ now \in Times
    /\ ent = NoEntity
    /\ err = "none"
    /\ out = [k \in {} |-> 0]
    /\ sphase = "input"
    /\ InitIdle
    /\ StoreIdle
    /\ DesignIdle

Deserialize ==
    /\ sphase = "input"
    /\ LET r == from_firestore_dict(doc, now)
       IN  /\ err' = r.raised
           /\ ent' = IF r.raised = "none" THEN r.value ELSE ent
    /\ sphase' = "deserialized"
    /\ UNCHANGED <<doc, now, out, initVars, storeVars, designVars>>

Serialize ==
    /\ sphase = "deserialized"
    /\ err = "none"
    /\ out' = to_firestore_dict(ent)
    /\ sphase' = "serialized"
    /\ UNCHANGED <<doc, now, ent, err, initVars, storeVars, designVars>>

SerdeNext == Deserialize \/ Serialize

SpecSerde == SerdeInit /\ [][SerdeNext]_vars

\* The 'state' string of a dictionary is one WorldState knows.
Recognized(data) ==
    "state" \in DOMAIN data /\ \E m \in DOMAIN WorldState : WorldState[m] = data.state

\* C6: from_firestore_dict is total over the state field (an absent or
\* unrecognized 'state' string yields an Entity with state UNKNOWN, never a
\* failure), and every Entity it yields round-trips through
\* to_firestore_dict / from_firestore_dict.
C6_TotalAndRoundTrip ==
    sphase \in {"deserialized", "serialized"} =>
        /\ err = "none"
        /\ ~Recognized(doc) => ent.state = "UNKNOWN"
        /\ sphase = "serialized" =>
              /\ from_firestore_dict(out, now).raised = "none"
              /\ from_firestore_dict(out, now).value = ent

\* What the code does guarantee: an absent 'state' gives UNKNOWN, a recognized
\* one is carried through its string form, and the round trip holds whenever
\* the call returned.
SerdeRoundTrip ==
    /\ sphase \in {"deserialized", "serialized"} =>
          /\ err = "none" <=> ("state" \notin DOMAIN doc \/ Recognized(doc))
          /\ (err = "none" /\ "state" \notin DOMAIN doc) => ent.state = "UNKNOWN"
          /\ (err = "none" /\ "state" \in DOMAIN doc) => WorldState[ent.state] = doc.state
    /\ sphase = "serialized" =>
          /\ from_firestore_dict(out, now).value = ent
          /\ DOMAIN doc = Keys => out = doc

-----------------------------------------------------------------------------
(* WorldModel.__init__ *)
CredPaths == {"None", "missing.json", "bad.json", "good.json"}

\* `credentials_path and os.path.exists(credentials_path)`
PathUsable(p) == p # "None" /\ p \in {"bad.json", "good.json"}

\* credentials.Certificate(path) raises on a file that is no service account key.
CertificateOk(p) == p = "good.json"

\* The default app holds a credential the Firestore client can use.
CredentialResolved == apps = "cert" \/ (apps = "adc" /\ ambient)

StartInit ==
    /\ apps \in {"none", "cert", "adc"}
    /\ ambient \in BOOLEAN
    /\ backend_up \in BOOLEAN
    /\ cred_path = "None"
    /\ pc = "start"
    /\ init_error = "none"
    /\ health_doc = FALSE
    /\ SerdeIdle
    /\ StoreIdle
    /\ DesignIdle

\* __init__ up to the call of _initialize_firebase (line 97-98).
Construct(path) ==
    /\ pc \in {"start", "failed", "ready"}
    /\ cred_path' = path
    /\ entities' = [k \in {} |-> NoEntity]
    /\ pc' = "_initialize_firebase"
    /\ init_error' = "none"
    /\ UNCHANGED <<apps, ambient, backend_up, health_doc, writes, call, serdeVars, designVars>>

\* _initialize_firebase: ValueError on any exception of the SDK.
InitializeFirebaseRaises ==
    apps = "none" /\ PathUsable(cred_path) /\ ~CertificateOk(cred_path)

_initialize_firebase ==
    /\ pc = "_initialize_firebase"
    /\ IF InitializeFirebaseRaises
       THEN /\ pc' = "failed"
            /\ init_error' = "ValueError"
            /\ apps' = apps
       ELSE /\ pc' = "_setup_firestore"
            /\ init_error' = init_error
            /\ apps' = IF apps # "none" THEN apps
                       ELSE IF PathUsable(cred_path) THEN "cert" ELSE "adc"
    /\ UNCHANGED <<ambient, backend_up, cred_path, health_doc, serdeVars, storeVars, designVars>>

SetupFirestoreRaisesUntested == ~CredentialResolved

\* The connection test of _setup_firestore fails: firestore.client() finds no
\* credential, or the test write does not reach the backend.
SetupFirestoreRaises == ~CredentialResolved \/ ~backend_up

\* _setup_firestore, then the rest of __init__ (line 99-101).
_setup_firestore ==
    /\ pc = "_setup_firestore"
    /\ IF SetupFirestoreRaises
       THEN /\ pc' = "failed"
            /\ init_error' = "RuntimeError"
            /\ health_doc' = health_doc
       ELSE /\ pc' = "ready"
            /\ init_error' = init_error
            /\ health_doc' = TRUE
    /\ UNCHANGED <<apps, ambient, backend_up, cred_path, serdeVars, storeVars, designVars>>

\* The network between the process and Firestore comes and goes.
NetworkChange ==
    /\ pc # "off"
    /\ backend_up' = ~backend_up
    /\ UNCHANGED <<apps, ambient, cred_path, pc, init_error, health_doc,
                   serdeVars, storeVars, designVars>>

InitNext ==
    \/ \E p \in CredPaths : Construct(p)
    \/ _initialize_firebase
    \/ _setup_firestore
    \/ NetworkChange

SpecInit == StartInit /\ [][InitNext]_vars

\* C7 (as claimed): a store becomes usable only with a resolvable credential
\* and a passed connection test, a failed construction ends in ValueError or
\* RuntimeError, and a supplied credentials path that does not exist never
\* leads to a usable store.
C7_FailsClosedOnMissingPath ==
    /\ pc = "ready" => CredentialResolved /\ health_doc
    /\ pc = "failed" => init_error \in {"ValueError", "RuntimeError"}
    /\ pc = "ready" => ~(cred_path # "None" /\ ~PathUsable(cred_path))

\* C7 (amended): a store becomes usable only when the default app holds a
\* resolvable credential (the certificate at the path, ambient default
\* credentials, or an app initialized earlier) and the connection test passed
\* at that moment; a failed construction ends in ValueError (from
\* _initialize_firebase) or RuntimeError (from _setup_firestore); a supplied
\* path that does not exist leads to a usable store only through ambient
\* default credentials or an earlier app.
C7_FailsClosed ==
    /\ [](pc = "ready" => CredentialResolved /\ health_doc)
    /\ [](pc = "failed" => init_error \in {"ValueError", "RuntimeError"})
    /\ []((pc = "ready" /\ cred_path # "None" /\ ~PathUsable(cred_path))
            => (apps = "adc" /\ ambient) \/ apps = "cert")
    /\ [][(pc' = "ready" /\ pc # "ready") => backend_up /\ CredentialResolved]_vars
    /\ [][(pc' = "failed" /\ pc = "_initialize_firebase") => init_error' = "ValueError"]_vars
    /\ [][(pc' = "failed" /\ pc = "_setup_firestore") => init_error' = "RuntimeError"]_vars

\* A store constructed with a credentials path that does not exist is usable.
C7_Witness == pc = "ready" /\ cred_path = "missing.json"

-----------------------------------------------------------------------------
(* WorldModel.update_entity on a constructed store.                         *)
(* An Entity carries no version (lines 34-43) and update_entity takes no    *)
(* expected version (line 132).  The version of an id is therefore kept as  *)
(* the history variable `writes`: the number of successful writes to the    *)
(* id, 0 while it is absent, 1 after the first write.  The version a caller *)
(* expects travels with the call and is never read by update_entity.        *)

Ids == {"e1", "e2"}

\* The entities callers submit.
Entities ==
    [id : Ids \cup {""},
     entity_type : {"", "sensor"},
     properties : {"{}", "{k:1}"},
     confidence : {DefaultConfidence},
     last_updated : {0},
     state : {"UNKNOWN"},
     relationships : {DefaultRelationships}]

ValidEntityIdOnly(e) == e.id # ""

\* `not entity.id or not entity.entity_type` is false (line 147).
ValidEntity(e) == e.id # "" /\ e.entity_type # ""

\* get(id): the local snapshot, "None" when absent.
Stored(id) == id \in DOMAIN entities
Version(id) == writes[id]

ReadyInit ==
    /\ apps = "cert"
    /\ ambient = FALSE
    /\ backend_up = TRUE
    /\ cred_path = "good.json"
    /\ pc = "ready"
    /\ init_error = "none"
    /\ health_doc = TRUE
    /\ SerdeIdle
    /\ StoreIdle
    /\ DesignIdle

\* A caller calls update_entity(entity), believing the stored version is v.
Submit(c, e, v) ==
    /\ pc = "ready"
    /\ call[c].pc = "idle"
    /\ call' = [call EXCEPT ![c] =
                  [pc |-> "pending", entity |-> e, expected |-> v, result |-> "none"]]
    /\ UNCHANGED <<entities, writes, serdeVars, initVars, designVars>>

\* update_entity, lines 145-151: validation, then the in-memory assignment.
update_entity(c) ==
    /\ call[c].pc = "pending"
    /\ LET e == call[c].entity
       IN  IF ~ValidEntity(e)
           THEN /\ call' = [call EXCEPT ![c].pc = "done", ![c].result = "ValueError"]
                /\ UNCHANGED <<entities, writes>>
           ELSE /\ writes[e.id] < MaxVersion
                /\ entities' = (e.id :> e) @@ entities
                /\ writes' = [writes EXCEPT ![e.id] = @ + 1]
                /\ call' = [call EXCEPT ![c].pc = "done", ![c].result = "True"]
    /\ UNCHANGED <<serdeVars, initVars, designVars>>

\* The caller takes the result.
Return(c) ==
    /\ call[c].pc = "done"
    /\ call' = [call EXCEPT ![c] = IdleCall]
    /\ UNCHANGED <<entities, writes, serdeVars, initVars, designVars>>

Next ==
    \/ \E c \in Callers, e \in Entities, v \in 0..MaxVersion : Submit(c, e, v)
    \/ \E c \in Callers : update_entity(c)
    \/ \E c \in Callers : Return(c)

Spec == ReadyInit /\ [][Next]_vars

\* The step is caller c's update_entity call completing.
Completes(c) == call[c].pc = "pending" /\ call'[c].pc = "done"

\* C1: when upsert(id, mutation, v) succeeds, the entity's version is exactly
\* v+1 afterwards (so a first successful write yields version 1).
C1_SuccessYieldsNextVersion ==
    [][\A c \in Callers :
         (Completes(c) /\ call'[c].result = "True")
            => /\ Stored(call[c].entity.id)'
               /\ Version(call[c].entity.id)' = call[c].expected + 1]_vars

\* C2: of two upserts of the same entity id with the same expected version,
\* exactly one succeeds; the other is a Conflict carrying the winner's version.
C2_ExactlyOneWinner ==
    \A c1, c2 \in Callers :
        (/\ c1 # c2
         /\ call[c1].pc = "done" /\ call[c2].pc = "done"
         /\ ValidEntity(call[c1].entity) /\ ValidEntity(call[c2].entity)
         /\ call[c1].entity.id = call[c2].entity.id
         /\ call[c1].expected = call[c2].expected)
        => /\ ~(call[c1].result = "True" /\ call[c2].result = "True")
           /\ call[c1].result = "True" => call[c2].result = "Conflict"

\* C3: an upsert whose expected version does not match the stored version
\* returns Conflict and leaves the stored entity and its version unchanged.
C3_MismatchLeavesStoreUnchanged ==
    [][\A c \in Callers :
         (/\ Completes(c)
          /\ ValidEntity(call[c].entity)
          /\ call[c].expected # Version(call[c].entity.id))
            => /\ call'[c].result = "Conflict"
               /\ entities' = entities
               /\ writes' = writes]_vars

\* C8: a write whose entity has an empty id or entity_type is rejected with
\* ValueError and leaves the entity map and the backend untouched; no stored
\* entity has an empty id or entity_type, and each is stored under its own id.
C8_InvalidRejected ==
    /\ [](\A k \in DOMAIN entities :
             /\ k # "" /\ entities[k].id = k /\ entities[k].entity_type # "")
    /\ [][\A c \in Callers :
            (Completes(c) /\ ~(call[c].entity.id # "" /\ call[c].entity.entity_type # ""))
               => /\ call'[c].result = "ValueError"
                  /\ entities' = entities
                  /\ writes' = writes
                  /\ health_doc' = health_doc]_vars

\* An invalid entity was submitted to a non-empty store and rejected.
C8_Witness ==
    \E c \in Callers :
        /\ call[c].pc = "done" /\ call[c].result = "ValueError"
        /\ call[c].entity.id = "" /\ DOMAIN entities # {}

-----------------------------------------------------------------------------
(* VersionedStore, RemoteSync and ConnectionSupervisor as spec.md designs   *)
(* them (sections 3 to 7).  src/ holds no code for these components.        *)
(* A write's content is the number of the write: positive for a write the   *)
(* store accepted, negative for a remote-origin write.  A deleted entity    *)
(* leaves its version behind (locally a marker, remotely the tombstone), so *)
(* versions of one id never restart.                                        *)

otherVars == <<serdeVars, initVars, storeVars>>

\* The versions an entity can reach within the bounds.
Versions == 0..(MaxSeq + MaxRemote)

DesignInit ==
    /\ local = [i \in Ids |-> Absent]
    /\ queue = <<>>
    /\ sync = "DISCONNECTED"
    /\ backend = [i \in Ids |-> NoDoc]
    /\ resp = [i \in Ids |-> "none"]
    /\ notes = {}
    /\ seq = 0
    /\ rcount = 0
    /\ applied = {}
    /\ SerdeIdle
    /\ InitIdle
    /\ StoreIdle

\* RemoteSync holds a live connection.
Live == sync = "SYNCED"

\* The entity is in the local store.
Present(id) == local[id].status = "live"

\* The version compare-and-swap compares with: 0 for an absent entity.
StoredVersion(id) == IF Present(id) THEN local[id].version ELSE 0

\* get(id) -> Entity option: the local snapshot, whatever the connection.
get(id) ==
    IF Present(id)
    THEN [found |-> TRUE, version |-> local[id].version, val |-> local[id].val]
    ELSE [found |-> FALSE, version |-> 0, val |-> 0]

VersionMatches(id, v) == v = StoredVersion(id)

UpsertResultOnline(id, v) ==
    IF ~Live THEN "Unavailable"
    ELSE IF VersionMatches(id, v) THEN "Ok" ELSE "Conflict"

\* What upsert(id, mutation, v) returns.
UpsertResult(id, v) == IF VersionMatches(id, v) THEN "Ok" ELSE "Conflict"

\* What delete(id, v) returns.
DeleteResult(id, v) ==
    IF ~Present(id) THEN "NotFound"
    ELSE IF VersionMatches(id, v) THEN "Ok" ELSE "Conflict"

\* The write an accepted call queues: it carries its target version.
WriteOf(id, kind) ==
    [id |-> id, kind |-> kind, target |-> local[id].version + 1, val |-> seq + 1]

\* The local apply of an accepted write.
LocalApply(w) ==
    [local EXCEPT ![w.id] =
        IF w.kind = "put"
        THEN [version |-> w.target, val |-> w.val, status |-> "live"]
        ELSE [version |-> w.target, val |-> w.val, status |-> "deleting"]]

\* The local apply and the enqueue happen together.
ApplyAndEnqueue(w) ==
    /\ local' = LocalApply(w)
    /\ queue' = Append(queue, w)
    /\ seq' = seq + 1

\* upsert(id, mutation, expected_version) -> Result<Entity, Conflict>
upsert(id, v) ==
    /\ sync # "off"
    /\ IF UpsertResult(id, v) = "Ok"
       THEN /\ seq < MaxSeq
            /\ ApplyAndEnqueue(WriteOf(id, "put"))
       ELSE UNCHANGED <<local, queue, seq>>
    /\ UNCHANGED <<sync, backend, resp, notes, rcount, applied, otherVars>>

\* delete(id, expected_version) -> Result<(), Conflict|NotFound>
delete(id, v) ==
    /\ sync # "off"
    /\ IF DeleteResult(id, v) = "Ok"
       THEN /\ seq < MaxSeq
            /\ ApplyAndEnqueue(WriteOf(id, "delete"))
       ELSE UNCHANGED <<local, queue, seq>>
    /\ UNCHANGED <<sync, backend, resp, notes, rcount, applied, otherVars>>

(* The backend: a transactional document store. *)

BackendAcceptsAny(w) == TRUE

\* The write carries its target version; the backend takes it only as the
\* next version of the document, and a tombstone only of a live document.
BackendAccepts(w) ==
    /\ w.target = backend[w.id].version + 1
    /\ w.kind = "delete" => (backend[w.id].version > 0 /\ ~backend[w.id].tomb)

BackendApply(w) ==
    [backend EXCEPT ![w.id] =
        [version |-> w.target, val |-> w.val, tomb |-> (w.kind = "delete")]]

(* RemoteSync *)
Queued(id) == {i \in 1..Len(queue) : queue[i].id = id}
LastOf(id) == CHOOSE i \in Queued(id) : \A j \in Queued(id) : i >= j
FirstOf(id) == CHOOSE i \in Queued(id) : \A j \in Queued(id) : i <= j
RemoveAt(q, i) == SubSeq(q, 1, i - 1) \o SubSeq(q, i + 1, Len(q))
NoResp == [i \in Ids |-> "none"]

\* DISCONNECTED -> CONNECTING, and DEGRADED -> CONNECTING when the backoff
\* delay has passed.
Connect ==
    /\ sync \in {"DISCONNECTED", "DEGRADED"}
    /\ sync' = "CONNECTING"
    /\ UNCHANGED <<local, queue, backend, resp, notes, seq, rcount, applied, otherVars>>

\* ConnectionSupervisor.acquire(): a connection, or Unavailable (and then
\* another backoff delay).
Acquire ==
    /\ sync = "CONNECTING"
    /\ sync' \in {"SYNCED", "DEGRADED"}
    /\ UNCHANGED <<local, queue, backend, resp, notes, seq, rcount, applied, otherVars>>

\* A backend error, a dropped connection or a failed health probe: DEGRADED,
\* the queue retained; answers on their way are lost.
BackendError ==
    /\ sync = "SYNCED"
    /\ sync' = "DEGRADED"
    /\ resp' = NoResp
    /\ UNCHANGED <<local, queue, backend, notes, seq, rcount, applied, otherVars>>

\* Drain: the oldest queued write of an id goes to the backend.
Push(id) ==
    /\ Live
    /\ Queued(id) # {}
    /\ resp[id] = "none"
    /\ LET w == queue[FirstOf(id)]
       IN  IF BackendAccepts(w)
           THEN /\ backend' = BackendApply(w)
                /\ applied' = applied \cup {w}
                /\ resp' = [resp EXCEPT ![id] = "ack"]
           ELSE /\ resp' = [resp EXCEPT ![id] = "conflict"]
                /\ UNCHANGED <<backend, applied>>
    /\ UNCHANGED <<local, queue, sync, notes, seq, rcount, otherVars>>

\* What the local store holds once the write w has left the queue: the marker
\* of a delete whose tombstone is written loses the entity.
Settled(w) ==
    IF w.kind = "delete" /\ local[w.id].status = "deleting"
       /\ local[w.id].version = w.target /\ backend[w.id].tomb
    THEN [local EXCEPT ![w.id] = [@ EXCEPT !.val = 0, !.status = "removed"]]
    ELSE local

\* The acknowledgment arrives: the write leaves the queue.
AckReceived(id) ==
    /\ Live
    /\ resp[id] = "ack"
    /\ queue' = RemoveAt(queue, FirstOf(id))
    /\ applied' = applied \ {queue[FirstOf(id)]}
    /\ local' = Settled(queue[FirstOf(id)])
    /\ resp' = [resp EXCEPT ![id] = "none"]
    /\ UNCHANGED <<sync, backend, notes, seq, rcount, otherVars>>

\* The backend rejected the write as stale: refetch, drop the queued write.
ConflictReceived(id) ==
    /\ Live
    /\ resp[id] = "conflict"
    /\ queue' = RemoveAt(queue, FirstOf(id))
    /\ applied' = applied \ {queue[FirstOf(id)]}
    /\ local' = Settled(queue[FirstOf(id)])
    /\ resp' = [resp EXCEPT ![id] = "none"]
    /\ UNCHANGED <<sync, backend, notes, seq, rcount, otherVars>>

\* Another writer changes the document at the backend.
RemoteWrite(id) ==
    /\ sync # "off"
    /\ rcount < MaxRemote
    /\ backend' = [backend EXCEPT ![id] =
                      [version |-> @.version + 1, val |-> -1, tomb |-> FALSE]]
    /\ notes' = notes \cup
                  {[id |-> id, version |-> backend[id].version + 1, val |-> -1,
                    fate |-> "pending"]}
    /\ rcount' = rcount + 1
    /\ UNCHANGED <<local, queue, sync, resp, seq, applied, otherVars>>

\* Last writer wins by version: a remote change older than local is discarded.
RemoteWinsAlways(n) == TRUE

RemoteWins(n) == n.version >= local[n.id].version

\* A remote-origin change notification is delivered.
Notify(n) ==
    /\ Live
    /\ n \in notes
    /\ n.fate = "pending"
    /\ IF RemoteWins(n)
       THEN /\ local' = [local EXCEPT ![n.id] =
                          [version |-> n.version, val |-> n.val, status |-> "live"]]
            /\ notes' = (notes \ {n}) \cup {[n EXCEPT !.fate = "applied"]}
       ELSE /\ local' = local
            /\ notes' = (notes \ {n}) \cup {[n EXCEPT !.fate = "discarded"]}
    /\ UNCHANGED <<queue, sync, backend, resp, seq, rcount, applied, otherVars>>

\* The expected versions callers pass: the stored one, a stale one and one
\* too high.  Every other mismatch behaves as these do: Conflict, no change.
Expected(id) == {0, StoredVersion(id), StoredVersion(id) + 1}

DesignNext ==
    \/ \E id \in Ids : \E v \in Expected(id) : upsert(id, v)
    \/ \E id \in Ids : \E v \in Expected(id) : delete(id, v)
    \/ Connect
    \/ Acquire
    \/ BackendError
    \/ \E id \in Ids : Push(id)
    \/ \E id \in Ids : AckReceived(id)
    \/ \E id \in Ids : ConflictReceived(id)
    \/ \E id \in Ids : RemoteWrite(id)
    \/ \E n \in notes : Notify(n)

SpecDesign == DesignInit /\ [][DesignNext]_vars

\* The supervising task runs the drain loop and the reconnection without
\* starving them (spec.md section 5).
SpecDesignLive ==
    /\ SpecDesign
    /\ WF_vars(Connect)
    /\ WF_vars(Acquire)
    /\ \A id \in Ids : WF_vars(Push(id))
    /\ \A id \in Ids : WF_vars(AckReceived(id))
    /\ \A id \in Ids : WF_vars(ConflictReceived(id))

Range(q) == {q[i] : i \in 1..Len(q)}
IsPrefix(p, q) == Len(p) <= Len(q) /\ SubSeq(q, 1, Len(p)) = p
RemoteTouched(id) == \E n \in notes : n.id = id

\* The queued writes that leave the queue in the step.
Leaving == {w \in Range(queue) : w \notin Range(queue')}

\* While DEGRADED the queue only grows.
NoDropWhileDegraded == [][sync = "DEGRADED" => IsPrefix(queue, queue')]_vars

\* The backend applies the queued writes of an id in the order they were
\* queued: the write it takes is the oldest queued one of the id, older than
\* every other queued write of the id, and none of the id is applied ahead
\* of it.
AppliedInOrder ==
    [][\A w \in applied' \ applied :
          /\ w = queue[FirstOf(w.id)]
          /\ \A i \in Queued(w.id) : queue[i] = w \/ queue[i].val > w.val
          /\ \A a \in applied : a.id # w.id]_vars

\* When nothing is queued for an id whose local entity comes from a local
\* write, the backend holds that very version.
DrainedVersion(id) ==
    (Queued(id) = {} /\ local[id].val > 0)
        => backend[id].version = local[id].version /\ backend[id].val = local[id].val

\* Once the connection is re-established for good, the queue drains.
DrainsOnceReconnected == (<>[]Live) => <>[](queue = <<>>)

====
